---- MODULE Spec2Model ----
(***************************************************************************)
(* A model of the hashed-sorting benchmark's hand-built algorithms:        *)
(*   - U64HashSet      (src/src/u64_hash_set.rs)                           *)
(*   - dlsd_sort       (src/src/dlsd.rs)                                   *)
(*   - dlsd_sort_and_count (src/src/dlsd_and_count.rs)                     *)
(*   - wide_merge_sort (src/src/wide_merge_sort.rs)                        *)
(*                                                                         *)
(* TLC's integers are 32 bits wide, so the machine word is modelled with   *)
(* WORD_BITS bits instead of 64, and the sizes that are tied to the word   *)
(* (radix width, bucket size, merge fan-out, base-case length) are scaled  *)
(* with it.  All of them are named definitions; every operator is written  *)
(* in terms of these names exactly as the source is written in terms of    *)
(* its constants, so the arithmetic (shifts, masks, wrap-around) is that   *)
(* of the source at a smaller width.                                       *)
(***************************************************************************)
EXTENDS Integers, Sequences, FiniteSets, TLC

\* ------------------------------------------------------------------------
\* Model widths (scaled stand-ins for the source's sizes)
\* ------------------------------------------------------------------------
\* Width of u64 / usize in the model (64 in the source).
WORD_BITS == 6
\* log2 of BUCKET_SIZE; the source has BUCKET_SIZE = 8 and reads the slot
\* offset from the top 3 bits of the hash (hash64 >> 61).
LG_BUCKET_SIZE == 1
\* Non-zero keys offered to insert are 1..MaxKey.
MaxKey == 3
\* Capacities 0..MaxCapacity are offered to with_capacity, besides the
\* capacities near the top of the word (see Capacities).
MaxCapacity == 4

\* log2 of the radix of one pass (LG_RADIX = 10 in the source).
LG_RADIX == 2
\* Every array of length 0..MaxLen over ShortVals is offered to the sorts.
MaxLen == 4

\* log2 of the merge fan-out (N = 256 in the source).
LG_N == 2
\* Longest array sorted by the generic sort alone (1024 in the source).
BASE_LEN == 4
\* Every array of length 0..MaxMergeLen over MergeVals is offered to
\* wide_merge_sort.
MaxMergeLen == 6

RECURSIVE Pow2(_)
Pow2(n) == IF n = 0 THEN 1 ELSE 2 * Pow2(n - 1)

WordMod == Pow2(WORD_BITS)
\* u64::MAX / usize::MAX
WordMax == WordMod - 1
\* isize::MAX
IsizeMax == Pow2(WORD_BITS - 1) - 1
Words == 0..WordMax

\* Bitwise operations on words, bit by bit.
RECURSIVE BitAnd(_, _)
BitAnd(a, b) ==
    IF a = 0 \/ b = 0 THEN 0
    ELSE (IF a % 2 = 1 /\ b % 2 = 1 THEN 1 ELSE 0) + 2 * BitAnd(a \div 2, b \div 2)

RECURSIVE BitXor(_, _)
BitXor(a, b) ==
    IF a = 0 THEN b
    ELSE IF b = 0 THEN a
    ELSE (IF a % 2 # b % 2 THEN 1 ELSE 0) + 2 * BitXor(a \div 2, b \div 2)

\* word >> k
Shr(w, k) == w \div Pow2(k)

\* usize::div_ceil
DivCeil(a, b) == (a + b - 1) \div b

\* usize::next_power_of_two, as a mathematical integer (may exceed WordMax).
RECURSIVE NextPow2From(_, _)
NextPow2From(p, n) == IF p >= n THEN p ELSE NextPow2From(2 * p, n)
NextPowerOfTwo(n) == NextPow2From(1, n)

\* usize::ilog2 of a power of two (or floor(log2) of any n >= 1).
RECURSIVE Ilog2(_)
Ilog2(n) == IF n <= 1 THEN 0 ELSE 1 + Ilog2(n \div 2)

\* The two arithmetic-overflow behaviours a Rust build can have:
\* "debug" panics on overflow (overflow-checks on), "release" wraps.
Builds == {"debug", "release"}

\* A run of the sorts starts with the build open ("any"): both builds behave
\* alike until the first overflowing operation, which settles it.
BuildChoices(b) == IF b = "any" THEN Builds ELSE {b}

\* ------------------------------------------------------------------------
\* U64HashSet
\* ------------------------------------------------------------------------
BUCKET_SIZE == Pow2(LG_BUCKET_SIZE)

\* size_of::<Bucket>() at the model's word width.
BucketBytes == BUCKET_SIZE * ((WORD_BITS + 7) \div 8)

NonZeroKeys == 1..MaxKey
Keys == {0} \cup NonZeroKeys
NoKey == 0 - 1

\* Hash values offered to the policy: bucket 0 and the last bucket, with
\* slot offset 0 and a non-zero slot offset, and the word's maximum.
HashVals == {0, Pow2(WORD_BITS - 1), WordMax - 1, WordMax}

\* A hash policy is any function of the key (StatelessU64Hasher::hash).
\* insert only tests keys for equality, so the keys are interchangeable and
\* the policies are taken up to a renaming of the keys: non-decreasing.
HashPolicies ==
    {h \in [NonZeroKeys -> HashVals] : \A k \in 1..(MaxKey - 1) : h[k] <= h[k + 1]}

Capacities == (0..MaxCapacity) \cup {Pow2(WORD_BITS - 2), Pow2(WORD_BITS - 1), WordMax}

VARIABLES
    build,      \* overflow behaviour of the build
    hashOf,     \* the hash policy H of U64HashSet<H>
    status,     \* "unbuilt", "ok", "panic_overflow", "panic_alloc", "ub", "hang"
    capacity,   \* argument of with_capacity
    table,      \* self.table: sequence of buckets (index 0 is table[1])
    len,        \* self.len
    has_zero,   \* self.has_zero
    called,     \* history: keys insert was called with
    last,       \* history: key of the latest insert call
    again       \* history: the latest insert call repeated the one before

setvars == <<hashOf, status, capacity, table, len, has_zero, called, last, again>>

EmptyBucket == [i \in 1..BUCKET_SIZE |-> 0]

\* Variant of NumBuckets without the doubling of the rounded capacity.
NumBucketsNotDoubled(b, cap) ==
    LET npotMath == NextPowerOfTwo(cap)
        npotOvf  == npotMath > WordMax
        npot     == IF npotOvf THEN 0 ELSE npotMath
    IN  IF b = "debug" /\ npotOvf
        THEN [panic |-> TRUE, n |-> 0]
        ELSE [panic |-> FALSE, n |-> DivCeil(npot, BUCKET_SIZE)]

\* The arithmetic of with_capacity: the bucket count, or the panic.
NumBuckets(b, cap) ==
    LET npotMath == NextPowerOfTwo(cap)
        npotOvf  == npotMath > WordMax
        npot     == IF npotOvf THEN 0 ELSE npotMath
        dblMath  == npot * 2
        dblOvf   == dblMath > WordMax
        dbl      == dblMath % WordMod
    IN  IF b = "debug" /\ (npotOvf \/ dblOvf)
        THEN [panic |-> TRUE, n |-> 0]
        ELSE [panic |-> FALSE, n |-> DivCeil(dbl, BUCKET_SIZE)]

\* U64HashSet::with_capacity
WithCapacity(cap) ==
    /\ status = "unbuilt"
    /\ LET nb == NumBuckets(build, cap)
       IN  IF nb.panic
           THEN /\ status' = "panic_overflow"
                /\ table' = <<>>
           ELSE IF nb.n * BucketBytes > IsizeMax
           THEN /\ status' = "panic_alloc"
                /\ table' = <<>>
           ELSE /\ status' = "ok"
                /\ table' = [i \in 1..nb.n |-> EmptyBucket]
    /\ capacity' = cap
    /\ len' = 0
    /\ has_zero' = FALSE
    /\ UNCHANGED <<build, hashOf, called, last, again>>

\* U64HashSet::len
SetLen == len + (IF has_zero THEN 1 ELSE 0)

\* Variant of ProbeBucket without the `*element == key` test: a key already
\* present is not recognised.
RECURSIVE ProbeBucketNoMatch(_, _, _, _)
ProbeBucketNoMatch(bucket, key, off, element_i) ==
    IF element_i = BUCKET_SIZE THEN [kind |-> "full", slot |-> 0]
    ELSE LET s == (element_i + off) % BUCKET_SIZE
         IN  IF bucket[s + 1] = 0 THEN [kind |-> "empty", slot |-> s]
             ELSE ProbeBucketNoMatch(bucket, key, off, element_i + 1)

\* The for loop over one bucket: the first slot, in probe order starting at
\* off, that is empty or holds key; "full" when there is none.
RECURSIVE ProbeBucket(_, _, _, _)
ProbeBucket(bucket, key, off, element_i) ==
    IF element_i = BUCKET_SIZE THEN [kind |-> "full", slot |-> 0]
    ELSE LET s == (element_i + off) % BUCKET_SIZE
         IN  IF bucket[s + 1] = 0 THEN [kind |-> "empty", slot |-> s]
             ELSE IF bucket[s + 1] = key THEN [kind |-> "found", slot |-> s]
             ELSE ProbeBucket(bucket, key, off, element_i + 1)

\* bucket_i += 1
NextBucketI(b, bucket_i) ==
    IF bucket_i = WordMax
    THEN (IF b = "debug" THEN [panic |-> TRUE, i |-> 0] ELSE [panic |-> FALSE, i |-> 0])
    ELSE [panic |-> FALSE, i |-> bucket_i + 1]

\* Variant of OffsetInBucket that restarts at slot 0 in a following bucket.
OffsetResets(element_offset_in_bucket, visited) ==
    IF visited = 0 THEN element_offset_in_bucket ELSE 0

\* The slot offset used for the bucket reached after `visited` full buckets.
\* element_offset_in_bucket is computed once, before the loop.
OffsetInBucket(element_offset_in_bucket, visited) == element_offset_in_bucket

\* The probe loop of insert.  `visited` counts the full buckets passed.
\* A table whose every bucket is full of other keys never ends the loop in
\* a wrapping build ("hang"); in a checking build bucket_i finally overflows.
RECURSIVE Probe(_, _, _, _, _, _)
Probe(b, tab, key, bucket_i, off, visited) ==
    LET bucket_mask == Len(tab) - 1
        bi == BitAnd(bucket_i, bucket_mask)
        r  == ProbeBucket(tab[bi + 1], key, OffsetInBucket(off, visited), 0)
        nx == NextBucketI(b, bucket_i)
    IN  IF r.kind # "full" THEN [kind |-> r.kind, bucket |-> bi, slot |-> r.slot]
        ELSE IF visited + 1 >= Len(tab)
             THEN [kind |-> IF b = "debug" THEN "overflow" ELSE "hang", bucket |-> 0, slot |-> 0]
        ELSE IF nx.panic THEN [kind |-> "overflow", bucket |-> 0, slot |-> 0]
        ELSE Probe(b, tab, key, nx.i, off, visited + 1)

\* U64HashSet::insert
Insert(key) ==
    /\ status = "ok"
    /\ called' = called \cup {key}
    /\ last' = key
    /\ again' = (last = key)
    /\ IF key = 0
       THEN /\ len' = len + (IF has_zero THEN 0 ELSE 1)
            /\ has_zero' = TRUE
            /\ UNCHANGED <<table, status>>
       ELSE IF Len(table) = 0
       THEN \* bucket_mask = 0 - 1, then get_unchecked_mut on an empty slice
            /\ status' = (IF build = "debug" THEN "panic_overflow" ELSE "ub")
            /\ UNCHANGED <<table, len, has_zero>>
       ELSE LET hash64 == hashOf[key]
                element_offset_in_bucket == Shr(hash64, WORD_BITS - LG_BUCKET_SIZE)
                p == Probe(build, table, key, hash64, element_offset_in_bucket, 0)
            IN  CASE p.kind = "empty" ->
                       /\ table' = [table EXCEPT ![p.bucket + 1][p.slot + 1] = key]
                       /\ len' = len + 1
                       /\ UNCHANGED <<status, has_zero>>
                  [] p.kind = "found" ->
                       UNCHANGED <<table, len, status, has_zero>>
                  [] p.kind = "overflow" ->
                       /\ status' = "panic_overflow"
                       /\ UNCHANGED <<table, len, has_zero>>
                  [] p.kind = "hang" ->
                       /\ status' = "hang"
                       /\ UNCHANGED <<table, len, has_zero>>
    /\ UNCHANGED <<build, hashOf, capacity>>

SetInit ==
    /\ build \in Builds
    /\ hashOf \in HashPolicies
    /\ status = "unbuilt"
    /\ capacity = 0
    /\ table = <<>>
    /\ len = 0
    /\ has_zero = FALSE
    /\ called = {}
    /\ last = NoKey
    /\ again = FALSE

SetIdle ==
    /\ hashOf = <<>>
    /\ status = "unbuilt"
    /\ capacity = 0
    /\ table = <<>>
    /\ len = 0
    /\ has_zero = FALSE
    /\ called = {}
    /\ last = NoKey
    /\ again = FALSE

\* ------------------------------------------------------------------------
\* Hash policies (src/src/hashers.rs)
\* ------------------------------------------------------------------------
\* Low 16 bits of the two multipliers of the MurmurHash3 finalizer
\* (0xff51afd7ed558ccd and 0xc4ceb9fe1a85ec53); the model multiplies modulo
\* 2^WORD_BITS, so only the low WORD_BITS bits of a multiplier matter.
MURMUR_C1 == 36045
MURMUR_C2 == 60499

\* wrapping_mul
WrappingMul(a, b) == ((a % WordMod) * (b % WordMod)) % WordMod

\* The xor-shift distance of the finalizer: 33 of 64 bits, one more than half.
MurmurShift == WORD_BITS \div 2 + 1

\* NoopHasher::hash
NoopHash(value) == value

\* MurmurHasher::hash_u64
MurmurHash(value) ==
    LET h1 == BitXor(value, Shr(value, MurmurShift))
        h2 == WrappingMul(h1, MURMUR_C1)
        h3 == BitXor(h2, Shr(h2, MurmurShift))
        h4 == WrappingMul(h3, MURMUR_C2)
    IN  BitXor(h4, Shr(h4, MurmurShift))

Hashers == {"Noop", "Murmur"}

\* Hasher::hash
Hash(H, value) == IF H = "Noop" THEN NoopHash(value) ELSE MurmurHash(value)

\* ------------------------------------------------------------------------
\* dlsd_sort and dlsd_sort_and_count
\* ------------------------------------------------------------------------
LG_MAX_DIVERSION_SIZE == 0
RADIX == Pow2(LG_RADIX)
MAX_PASSES == DivCeil(WORD_BITS - LG_MAX_DIVERSION_SIZE, LG_RADIX)
CHUNK_SIZE == 4

VARIABLES
    fn,               \* "sort" (dlsd_sort) or "count" (dlsd_sort_and_count)
    hasher,           \* the Hasher type parameter
    orig_data,        \* the argument
    pc,               \* position in the function, or how it ended
    passes,
    last_pass_radix,
    data,             \* the Vec returned by compute_counts
    aux,
    counts,           \* counts[pass + 1][radix + 1]
    from_is_data,     \* TRUE when `from` is data and `to` is aux
    pass,             \* loop variable of the non-last passes
    idx,              \* elements of `from` already dealt in the current pass
    heads_start,      \* Head.start (last pass)
    heads_pos,        \* heads[i] (non-last passes), Head.pos (last pass)
    unique_count,
    last_out,         \* history: `to` as the last pass left it
    result            \* the returned value

dlsdvars == <<fn, hasher, orig_data, pc, passes, last_pass_radix, data, aux,
              counts, from_is_data, pass, idx, heads_start, heads_pos, unique_count,
              last_out, result>>

\* Values offered in short arrays: equal and neighbouring low bits, both
\* ends of the word, and different top digits.
ShortVals == {0, 1, 5, Pow2(WORD_BITS - LG_RADIX), Pow2(WORD_BITS - LG_RADIX) + 1, WordMax}

\* Values offered in arrays long enough for two passes (any first chunk,
\* then RADIX equal words): they differ in the digit of the first of two
\* passes, in the lowest bit of the top digit, and in the top bit.
LongVals == {0, Pow2(LG_RADIX), Pow2(WORD_BITS - LG_RADIX),
             Pow2(WORD_BITS - 1) + Pow2(WORD_BITS - LG_RADIX)}

ArraysOf(vals, n) == [1..n -> vals]

\* The spec's concrete scenario.
ScenarioArray == <<5, 3, 3, 1, 2, 1>>

InputArrays ==
    (UNION {ArraysOf(ShortVals, n) : n \in 0..MaxLen})
    \cup {ScenarioArray}
    \cup {a \o [i \in 1..RADIX |-> t] : a \in ArraysOf(LongVals, CHUNK_SIZE), t \in LongVals}

FromBuf == IF from_is_data THEN data ELSE aux
ToBuf == IF from_is_data THEN aux ELSE data

\* Number of elements covered by as_chunks::<CHUNK_SIZE>().0
ChunkedLen(n) == (n \div CHUNK_SIZE) * CHUNK_SIZE

\* read_radix
read_radix(word, p, np) ==
    LET MASK == Pow2(LG_RADIX) - 1
        shift == WORD_BITS - ((np - p) * LG_RADIX)
    IN  BitAnd(Shr(word, shift), MASK)

\* read_last_pass_radix
read_last_pass_radix(word, lpr) == Shr(word, WORD_BITS - lpr)

\* The digit compute_counts files a hashed word under in pass p:
\* dlsd.rs uses read_radix for every pass, dlsd_and_count.rs uses
\* read_last_pass_radix for the last one.
CountedRadix(f, h, p, np, lpr) ==
    IF f = "count" /\ p = np - 1 THEN read_last_pass_radix(h, lpr)
    ELSE read_radix(h, p, np)

\* compute_counts: the hashed words and the histogram of every pass.
HashedData(H, orig) == [i \in 1..ChunkedLen(Len(orig)) |-> Hash(H, orig[i])]

compute_counts(f, H, orig, np, lpr) ==
    LET hd == HashedData(H, orig)
    IN  [p \in 1..MAX_PASSES |->
            [r \in 1..RADIX |->
                IF p > np THEN 0
                ELSE Cardinality({i \in 1..Len(hd) :
                                    CountedRadix(f, hd[i], p - 1, np, lpr) = r - 1})]]

\* The prefix sum that positions the heads of pass p: start of digit r.
RECURSIVE PrefixSum(_, _)
PrefixSum(c, r) == IF r = 0 THEN 0 ELSE PrefixSum(c, r - 1) + c[r]

\* Variant of HeadsOf that starts every digit's cursor at 0.
HeadsAllZero(c) == [r \in 1..RADIX |-> 0]

HeadsOf(c) == [r \in 1..RADIX |-> PrefixSum(c, r - 1)]

\* The number of passes dlsd_sort runs for n elements.
SortPasses(n) == DivCeil(Ilog2(NextPowerOfTwo(n)) - LG_MAX_DIVERSION_SIZE, LG_RADIX)

\* sum_of_radixes of dlsd_sort_and_count
SumOfRadixes(n) == Ilog2(NextPowerOfTwo(n))

\* dlsd_sort, lines 14-20: the pass count and the assertion.
SortBegin ==
    /\ pc = "call"
    /\ fn = "sort"
    /\ passes' = SortPasses(Len(orig_data))
    /\ pc' = IF Len(orig_data) % CHUNK_SIZE = 0 THEN "counts" ELSE "panic_assert"
    /\ UNCHANGED <<fn, hasher, build, orig_data, last_pass_radix, data, aux, counts,
                   from_is_data, pass, idx, heads_start, heads_pos, unique_count,
                   last_out, result>>

\* dlsd_sort_and_count, lines 10-13: pass count, last_pass_radix (u32
\* arithmetic: passes as u32 - 1 overflows when passes = 0), the assertion.
CountBegin ==
    /\ pc = "call"
    /\ fn = "count"
    /\ LET sum_of_radixes == SumOfRadixes(Len(orig_data))
           np == DivCeil(sum_of_radixes, LG_RADIX)
       IN  /\ passes' = np
           /\ \E b \in (IF np = 0 THEN BuildChoices(build) ELSE {build}) :
                /\ build' = b
                /\ IF np = 0 /\ b = "debug"
                   THEN /\ pc' = "panic_overflow"
                        /\ UNCHANGED last_pass_radix
                   ELSE \* wrapping: sum - (np - 1) * LG_RADIX, which is
                        \* sum + LG_RADIX modulo 2^32 when np = 0
                        /\ last_pass_radix' = sum_of_radixes - (np - 1) * LG_RADIX
                        /\ pc' = IF Len(orig_data) % CHUNK_SIZE = 0
                                 THEN "counts" ELSE "panic_assert"
    /\ UNCHANGED <<fn, hasher, orig_data, data, aux, counts,
                   from_is_data, pass, idx, heads_start, heads_pos, unique_count,
                   last_out, result>>

\* compute_counts, the aux allocation, `from` and `to`.
ComputeCounts ==
    /\ pc = "counts"
    /\ data' = HashedData(hasher, orig_data)
    /\ counts' = compute_counts(fn, hasher, orig_data, passes, last_pass_radix)
    /\ aux' = [i \in 1..ChunkedLen(Len(orig_data)) |-> 0]
    /\ from_is_data' = TRUE
    /\ pass' = 0
    /\ pc' = "pass_begin"
    /\ UNCHANGED <<fn, hasher, build, orig_data, passes, last_pass_radix, idx,
                   heads_start, heads_pos, unique_count, last_out, result>>

\* Head of `for pass in 0..passes - 1`: the range's end is passes - 1 in
\* usize (overflowing when passes = 0), then the prefix sum over
\* counts[pass] (bounds-checked).
PassBegin ==
    /\ pc = "pass_begin"
    /\ \E b \in (IF passes = 0 THEN BuildChoices(build) ELSE {build}) :
         /\ build' = b
         /\ IF passes = 0 /\ b = "debug"
            THEN /\ pc' = "panic_overflow"
                 /\ UNCHANGED <<idx, heads_pos>>
            ELSE LET upper == IF passes = 0 THEN WordMax ELSE passes - 1
                 IN  IF pass >= upper
                     THEN /\ pc' = "last_begin"
                          /\ UNCHANGED <<idx, heads_pos>>
                     ELSE IF pass >= MAX_PASSES
                     THEN /\ pc' = "panic_bounds"
                          /\ UNCHANGED <<idx, heads_pos>>
                     ELSE /\ heads_pos' = HeadsOf(counts[pass + 1])
                          /\ idx' = 0
                          /\ pc' = "pass_loop"
    /\ UNCHANGED <<fn, hasher, orig_data, passes, last_pass_radix, data, aux,
                   counts, from_is_data, pass, heads_start, unique_count, last_out,
                   result>>

\* `buf` with word written at 0-based position pos.
WriteAt(buf, pos, word) == [buf EXCEPT ![pos + 1] = word]

\* One iteration of the dealing loop of a non-last pass.
PassStep ==
    /\ pc = "pass_loop"
    /\ idx < ChunkedLen(Len(FromBuf))
    /\ LET word == FromBuf[idx + 1]
           radix == read_radix(word, pass, passes)
           pos == heads_pos[radix + 1]
       IN  IF pos >= Len(ToBuf)
           THEN \* get_unchecked_mut out of bounds
                /\ pc' = "ub"
                /\ UNCHANGED <<data, aux, heads_pos, idx>>
           ELSE /\ IF from_is_data
                   THEN aux' = WriteAt(aux, pos, word) /\ UNCHANGED data
                   ELSE data' = WriteAt(data, pos, word) /\ UNCHANGED aux
                /\ heads_pos' = [heads_pos EXCEPT ![radix + 1] = pos + 1]
                /\ idx' = idx + 1
                /\ UNCHANGED pc
    /\ UNCHANGED <<fn, hasher, build, orig_data, passes, last_pass_radix, counts,
                   from_is_data, pass, heads_start, unique_count, last_out, result>>

\* End of a non-last pass: std::mem::swap(&mut from, &mut to).
PassEnd ==
    /\ pc = "pass_loop"
    /\ idx = ChunkedLen(Len(FromBuf))
    /\ from_is_data' = ~from_is_data
    /\ pass' = pass + 1
    /\ pc' = "pass_begin"
    /\ UNCHANGED <<fn, hasher, build, orig_data, passes, last_pass_radix, data, aux,
                   counts, idx, heads_start, heads_pos, unique_count, last_out, result>>

\* The heads of the last pass: Head { start: pos, pos: pos }.
LastBegin ==
    /\ pc = "last_begin"
    /\ heads_start' = HeadsOf(counts[passes])
    /\ heads_pos' = HeadsOf(counts[passes])
    /\ idx' = 0
    /\ unique_count' = 0
    /\ pc' = "last_loop"
    /\ UNCHANGED <<fn, hasher, build, orig_data, passes, last_pass_radix, data, aux,
                   counts, from_is_data, pass, last_out, result>>

\* The backward insertion: shifts the words of [start, j) that are greater
\* than word one place up; yields the buffer after the shifts and the place
\* j where word goes.
RECURSIVE ShiftUp(_, _, _, _)
ShiftUp(buf, start, j, word) ==
    IF j > start /\ buf[j] > word
    THEN ShiftUp(WriteAt(buf, j, buf[j]), start, j - 1, word)
    ELSE [buf |-> buf, j |-> j]

\* Insertion of word into [start, pos) of buf.
InsertSorted(buf, start, pos, word) ==
    LET sh == ShiftUp(buf, start, pos, word)
    IN  [buf |-> WriteAt(sh.buf, sh.j, word), j |-> sh.j]

\* One iteration of the last pass of dlsd_sort.
SortLastStep ==
    /\ pc = "last_loop"
    /\ fn = "sort"
    /\ idx < ChunkedLen(Len(FromBuf))
    /\ LET word == FromBuf[idx + 1]
           radix == read_radix(word, passes - 1, passes)
           start == heads_start[radix + 1]
           pos == heads_pos[radix + 1]
       IN  IF pos >= Len(ToBuf)
           THEN /\ pc' = "ub"
                /\ UNCHANGED <<data, aux, heads_pos, idx>>
           ELSE LET ins == InsertSorted(ToBuf, start, pos, word)
                IN  /\ IF from_is_data
                       THEN aux' = ins.buf /\ UNCHANGED data
                       ELSE data' = ins.buf /\ UNCHANGED aux
                    /\ heads_pos' = [heads_pos EXCEPT ![radix + 1] = pos + 1]
                    /\ idx' = idx + 1
                    /\ UNCHANGED pc
    /\ UNCHANGED <<fn, hasher, build, orig_data, passes, last_pass_radix, counts,
                   from_is_data, pass, heads_start, unique_count, last_out, result>>

\* sorted_bits_mask: the top passes * LG_RADIX bits of a word.
SortedBits(word, np) == Shr(word, WORD_BITS - np * LG_RADIX)

\* Where head.pos stands after a word was placed at j next to prev_word:
\* back at start when the two differ in the sorted bits, then one further.
PosAfterPlacing(start, pos, prev_word, word, np) ==
    (IF SortedBits(prev_word, np) # SortedBits(word, np) THEN start ELSE pos) + 1

\* One iteration of the last pass of dlsd_sort_and_count.
CountLastStep ==
    /\ pc = "last_loop"
    /\ fn = "count"
    /\ idx < ChunkedLen(Len(FromBuf))
    /\ LET word == FromBuf[idx + 1]
           radix == read_last_pass_radix(word, last_pass_radix)
           start == heads_start[radix + 1]
           pos == heads_pos[radix + 1]
       IN  IF pos >= Len(ToBuf)
           THEN /\ pc' = "ub"
                /\ UNCHANGED <<data, aux, heads_pos, idx, unique_count>>
           ELSE LET ins == InsertSorted(ToBuf, start, pos, word)
                    j == ins.j
                    prev_word == ins.buf[j]
                IN  /\ IF from_is_data
                       THEN aux' = ins.buf /\ UNCHANGED data
                       ELSE data' = ins.buf /\ UNCHANGED aux
                    /\ IF j > start
                       THEN /\ unique_count' =
                                 unique_count + (IF prev_word < word THEN 1 ELSE 0)
                            /\ heads_pos' = [heads_pos EXCEPT ![radix + 1] =
                                 PosAfterPlacing(start, pos, prev_word, word, passes)]
                       ELSE /\ unique_count' = unique_count + 1
                            /\ heads_pos' = [heads_pos EXCEPT ![radix + 1] = pos + 1]
                    /\ idx' = idx + 1
                    /\ UNCHANGED pc
    /\ UNCHANGED <<fn, hasher, build, orig_data, passes, last_pass_radix, counts,
                   from_is_data, pass, heads_start, last_out, result>>

\* to.copy_from_slice(from): the pair <<data, aux>> after the copy.
CopyFromSlice(d, a, fromIsData) ==
    IF fromIsData THEN <<d, d>> ELSE <<a, a>>

\* dlsd_sort after the last pass: the final copy and the return of data.
SortFinish ==
    /\ pc = "last_loop"
    /\ fn = "sort"
    /\ idx = ChunkedLen(Len(FromBuf))
    /\ last_out' = ToBuf
    /\ LET bufs == IF passes % 2 = 1
                   THEN CopyFromSlice(data, aux, from_is_data)
                   ELSE <<data, aux>>
       IN  /\ data' = bufs[1]
           /\ aux' = bufs[2]
           /\ result' = bufs[1]
    /\ pc' = "done"
    /\ UNCHANGED <<fn, hasher, build, orig_data, passes, last_pass_radix, counts,
                   from_is_data, pass, idx, heads_start, heads_pos, unique_count>>

\* dlsd_sort_and_count after the last pass: the return of unique_count.
CountFinish ==
    /\ pc = "last_loop"
    /\ fn = "count"
    /\ idx = ChunkedLen(Len(FromBuf))
    /\ last_out' = ToBuf
    /\ result' = unique_count
    /\ pc' = "done"
    /\ UNCHANGED <<fn, hasher, build, orig_data, passes, last_pass_radix, data, aux,
                   counts, from_is_data, pass, idx, heads_start, heads_pos,
                   unique_count>>

DlsdInit ==
    /\ fn \in {"sort", "count"}
    /\ hasher \in Hashers
    /\ orig_data \in InputArrays
    /\ build = "any"
    /\ pc = "call"
    /\ passes = 0
    /\ last_pass_radix = 0
    /\ data = <<>>
    /\ aux = <<>>
    /\ counts = <<>>
    /\ from_is_data = TRUE
    /\ pass = 0
    /\ idx = 0
    /\ heads_start = <<>>
    /\ heads_pos = <<>>
    /\ unique_count = 0
    /\ last_out = <<>>
    /\ result = <<>>

\* ------------------------------------------------------------------------
\* wide_merge_sort
\* ------------------------------------------------------------------------
N == Pow2(LG_N)

VARIABLES
    m_pc,          \* "call", "merge" (in the output loop of the top merge), "done"
    m_input,       \* the argument as passed
    m_data,        \* data
    m_aux,         \* aux
    keys,          \* merge256: head of each run, [0..N-1]
    srcs,          \* merge256: elements each iterator has yielded, [0..N-1]
    loser_table,   \* merge256: [0..N-1]
    m_out          \* merge256: elements of dst written

mergevars == <<m_pc, m_input, m_data, m_aux, keys, srcs, loser_table, m_out>>

\* Values offered to wide_merge_sort; u64::MAX is among them.
MergeVals == {0, 1, 2, WordMax}

\* Arrays long enough for a second level of recursion: every chunk of the
\* top level is longer than BASE_LEN.
DeepLen == N * (BASE_LEN + 1) + 1

DeepArrays ==
    { [i \in 1..DeepLen |-> DeepLen - i],
      [i \in 1..DeepLen |-> (i * 7) % 5],
      [i \in 1..DeepLen |-> IF i % 3 = 0 THEN WordMax ELSE (i * 3) % 4],
      [i \in 1..DeepLen |-> i \div 2] }

MergeInputs ==
    (UNION {ArraysOf(MergeVals, n) : n \in 0..MaxMergeLen}) \cup DeepArrays

\* slice::sort_unstable: the ascending arrangement of s.
RECURSIVE InsertAscending(_, _)
InsertAscending(s, x) ==
    IF s = <<>> THEN <<x>>
    ELSE IF x <= Head(s) THEN <<x>> \o s
    ELSE <<Head(s)>> \o InsertAscending(Tail(s), x)

RECURSIVE sort_unstable(_)
sort_unstable(s) ==
    IF s = <<>> THEN <<>> ELSE InsertAscending(sort_unstable(Tail(s)), Head(s))

\* chunk_start / chunk_end of chunk i of a slice of length n.
ChunkStart(n, i) == (n * i) \div N
ChunkEnd(n, i) == (n * (i + 1)) \div N

\* Variant of NextOrMax whose sentinel for an exhausted run is below
\* u64::MAX.
NextOrBelowMax(src, i, taken) ==
    IF ChunkStart(Len(src), i) + taken < ChunkEnd(Len(src), i)
    THEN src[ChunkStart(Len(src), i) + taken + 1]
    ELSE WordMax - 1

\* srcs[i].next().copied().unwrap_or(u64::MAX) for the run i of src, of
\* which `taken` elements were yielded before.
NextOrMax(src, i, taken) ==
    IF ChunkStart(Len(src), i) + taken < ChunkEnd(Len(src), i)
    THEN src[ChunkStart(Len(src), i) + taken + 1]
    ELSE WordMax

\* Iterator position after next().
Advance(src, i, taken) ==
    IF ChunkStart(Len(src), i) + taken < ChunkEnd(Len(src), i) THEN taken + 1 ELSE taken

\* Variant of Beats in which the bigger head wins.
BiggerBeats(a, b) == a > b

\* The match of two heads: the first wins when it is smaller.
Beats(a, b) == a < b

\* Initialisation of the loser table, node i from N - 1 down to 1;
\* w is the temporary array of winners, lt the loser table.
RECURSIVE InitLosers(_, _, _, _)
InitLosers(k, w, lt, i) ==
    IF i = 0 THEN [lt EXCEPT ![0] = w[1]]
    ELSE LET left_child == 2 * i
             right_child == left_child + 1
             winner == IF Beats(k[w[left_child]], k[w[right_child]])
                       THEN left_child ELSE right_child
             loser == IF winner = left_child THEN right_child ELSE left_child
         IN  InitLosers(k, [w EXCEPT ![i] = w[winner]], [lt EXCEPT ![i] = w[loser]], i - 1)

\* merge256 up to the output loop.
MergeStart(src) ==
    LET k == [i \in 0..(N - 1) |-> NextOrMax(src, i, 0)]
        t == [i \in 0..(N - 1) |-> Advance(src, i, 0)]
        w == [i \in 0..(2 * N - 1) |-> i % N]
    IN  [keys |-> k, srcs |-> t,
         loser_table |-> InitLosers(k, w, [i \in 0..(N - 1) |-> 0], N - 1)]

\* Variant of Replay that, when the recorded loser beats the entrant, leaves
\* the node's loser as it was instead of recording the beaten entrant.
RECURSIVE ReplayDropsLoser(_, _, _, _, _, _)
ReplayDropsLoser(k, old, lt, leaf_i, level, winner_i) ==
    IF level > LG_N THEN [lt EXCEPT ![0] = winner_i]
    ELSE LET node == Shr(leaf_i, level)
             loser_i == old[node]
         IN  IF Beats(k[winner_i], k[loser_i])
             THEN ReplayDropsLoser(k, old, lt, leaf_i, level + 1, winner_i)
             ELSE ReplayDropsLoser(k, old, lt, leaf_i, level + 1, loser_i)

\* Replay of the new entrant against the losers on the path from its leaf
\* to the root: level 1 is the leaf's parent (loser7 in the source), level
\* LG_N the root (loser0).  The losers are read from the table as it was
\* before the replay.
RECURSIVE Replay(_, _, _, _, _, _)
Replay(k, old, lt, leaf_i, level, winner_i) ==
    IF level > LG_N THEN [lt EXCEPT ![0] = winner_i]
    ELSE LET node == Shr(leaf_i, level)
             loser_i == old[node]
         IN  IF Beats(k[winner_i], k[loser_i])
             THEN Replay(k, old, [lt EXCEPT ![node] = loser_i], leaf_i, level + 1, winner_i)
             ELSE Replay(k, old, [lt EXCEPT ![node] = winner_i], leaf_i, level + 1, loser_i)

\* One iteration of `for d in dst`: the value written and the state after.
MergeStep(src, st) ==
    LET winner_i == st.loser_table[0]
        d == st.keys[winner_i]
        k == [st.keys EXCEPT ![winner_i] = NextOrMax(src, winner_i, st.srcs[winner_i])]
        t == [st.srcs EXCEPT ![winner_i] = Advance(src, winner_i, st.srcs[winner_i])]
    IN  [d |-> d, keys |-> k, srcs |-> t,
         loser_table |-> Replay(k, st.loser_table, st.loser_table, winner_i + N, 1, winner_i)]

\* merge256 as a whole: the contents of dst.
RECURSIVE MergeLoop(_, _, _, _)
MergeLoop(src, st, dst, n) ==
    IF n = 0 THEN dst
    ELSE LET r == MergeStep(src, st)
         IN  MergeLoop(src, r, Append(dst, r.d), n - 1)

merge256(src) == MergeLoop(src, MergeStart(src), <<>>, Len(src))

RECURSIVE Concat(_, _)
Concat(f, n) == IF n = 0 THEN <<>> ELSE Concat(f, n - 1) \o f[n - 1]

\* wide_merge_sort_recursive: <<data, aux>> after the call.
RECURSIVE wide_merge_sort_recursive(_, _, _)

\* The `for i in 0..N` loop of wide_merge_sort_recursive: <<data, aux>>
\* after every chunk was sorted with write_to_aux negated.
RecurseOnChunks(d, a, write_to_aux) ==
    LET n == Len(d)
        sub == [i \in 0..(N - 1) |->
                  wide_merge_sort_recursive(
                      SubSeq(d, ChunkStart(n, i) + 1, ChunkEnd(n, i)),
                      SubSeq(a, ChunkStart(n, i) + 1, ChunkEnd(n, i)),
                      ~write_to_aux)]
    IN  <<Concat([i \in 0..(N - 1) |-> sub[i][1]], N),
          Concat([i \in 0..(N - 1) |-> sub[i][2]], N)>>

wide_merge_sort_recursive(d, a, write_to_aux) ==
    IF Len(d) <= BASE_LEN
    THEN LET sd == sort_unstable(d) IN <<sd, IF write_to_aux THEN sd ELSE a>>
    ELSE LET c == RecurseOnChunks(d, a, write_to_aux)
         IN  IF write_to_aux THEN <<c[1], merge256(c[1])>>
                             ELSE <<merge256(c[2]), c[2]>>

\* wide_merge_sort up to the output loop of the top-level merge256 (the
\* top level has write_to_aux = false: it merges aux into data), or to the
\* return when the array is short.
MergeSortCall ==
    /\ m_pc = "call"
    /\ IF Len(m_data) <= BASE_LEN
       THEN /\ m_data' = sort_unstable(m_data)
            /\ m_pc' = "done"
            /\ UNCHANGED <<m_aux, keys, srcs, loser_table, m_out>>
       ELSE LET c == RecurseOnChunks(m_data, [i \in 1..Len(m_data) |-> 0], FALSE)
                st == MergeStart(c[2])
            IN  /\ m_data' = c[1]
                /\ m_aux' = c[2]
                /\ keys' = st.keys
                /\ srcs' = st.srcs
                /\ loser_table' = st.loser_table
                /\ m_out' = 0
                /\ m_pc' = "merge"
    /\ UNCHANGED m_input

\* One iteration of the output loop of the top-level merge256.
MergeOutput ==
    /\ m_pc = "merge"
    /\ m_out < Len(m_data)
    /\ LET r == MergeStep(m_aux, [keys |-> keys, srcs |-> srcs, loser_table |-> loser_table])
       IN  /\ m_data' = [m_data EXCEPT ![m_out + 1] = r.d]
           /\ keys' = r.keys
           /\ srcs' = r.srcs
           /\ loser_table' = r.loser_table
    /\ m_out' = m_out + 1
    /\ UNCHANGED <<m_pc, m_input, m_aux>>

\* The output loop ends; merge256 and wide_merge_sort return.
MergeReturn ==
    /\ m_pc = "merge"
    /\ m_out = Len(m_data)
    /\ m_pc' = "done"
    /\ UNCHANGED <<m_input, m_data, m_aux, keys, srcs, loser_table, m_out>>

MergeInit ==
    /\ m_pc = "call"
    /\ m_input \in MergeInputs
    /\ m_data = m_input
    /\ m_aux = <<>>
    /\ keys = <<>>
    /\ srcs = <<>>
    /\ loser_table = <<>>
    /\ m_out = 0

MergeIdle ==
    /\ m_pc = "idle"
    /\ m_input = <<>>
    /\ m_data = <<>>
    /\ m_aux = <<>>
    /\ keys = <<>>
    /\ srcs = <<>>
    /\ loser_table = <<>>
    /\ m_out = 0

DlsdIdle ==
    /\ fn = "none"
    /\ hasher = "Noop"
    /\ orig_data = <<>>
    /\ pc = "idle"
    /\ passes = 0
    /\ last_pass_radix = 0
    /\ data = <<>>
    /\ aux = <<>>
    /\ counts = <<>>
    /\ from_is_data = TRUE
    /\ pass = 0
    /\ idx = 0
    /\ heads_start = <<>>
    /\ heads_pos = <<>>
    /\ unique_count = 0
    /\ last_out = <<>>
    /\ result = <<>>

\* ------------------------------------------------------------------------
\* Specifications
\* ------------------------------------------------------------------------
vars == <<build, setvars, dlsdvars, mergevars>>

\* A U64HashSet under any sequence of calls.
SetNext ==
    \/ \E cap \in Capacities : WithCapacity(cap) /\ UNCHANGED <<dlsdvars, mergevars>>
    \/ \E key \in Keys : Insert(key) /\ UNCHANGED <<dlsdvars, mergevars>>

SetSpecInit == SetInit /\ DlsdIdle /\ MergeIdle

SpecSet == SetSpecInit /\ [][SetNext]_vars

\* One call of dlsd_sort or dlsd_sort_and_count.
DlsdNext ==
    \/ SortBegin /\ UNCHANGED <<setvars, mergevars>>
    \/ CountBegin /\ UNCHANGED <<setvars, mergevars>>
    \/ ComputeCounts /\ UNCHANGED <<setvars, mergevars>>
    \/ PassBegin /\ UNCHANGED <<setvars, mergevars>>
    \/ PassStep /\ UNCHANGED <<setvars, mergevars>>
    \/ PassEnd /\ UNCHANGED <<setvars, mergevars>>
    \/ LastBegin /\ UNCHANGED <<setvars, mergevars>>
    \/ SortLastStep /\ UNCHANGED <<setvars, mergevars>>
    \/ CountLastStep /\ UNCHANGED <<setvars, mergevars>>
    \/ SortFinish /\ UNCHANGED <<setvars, mergevars>>
    \/ CountFinish /\ UNCHANGED <<setvars, mergevars>>

DlsdSpecInit == DlsdInit /\ SetIdle /\ MergeIdle

SpecDlsd == DlsdSpecInit /\ [][DlsdNext]_vars

\* One call of wide_merge_sort.
MergeNext ==
    \/ MergeSortCall /\ UNCHANGED <<build, setvars, dlsdvars>>
    \/ MergeOutput /\ UNCHANGED <<build, setvars, dlsdvars>>
    \/ MergeReturn /\ UNCHANGED <<build, setvars, dlsdvars>>

MergeSpecInit == MergeInit /\ build = "any" /\ SetIdle /\ DlsdIdle

SpecMerge == MergeSpecInit /\ [][MergeNext]_vars

\* ------------------------------------------------------------------------
\* Properties of U64HashSet
\* ------------------------------------------------------------------------
RECURSIVE SumSeq(_)
SumSeq(s) == IF s = <<>> THEN 0 ELSE Head(s) + SumSeq(Tail(s))

\* Number of table slots that hold a key.
OccupiedSlots ==
    SumSeq([b \in 1..Len(table) |->
               Cardinality({i \in 1..BUCKET_SIZE : table[b][i] # 0})])

\* with_capacity(cap) rounds up and doubles beyond the machine word.
CapacityOverflows(cap) == NextPowerOfTwo(cap) * 2 > WordMax

\* What the key 0 adds to len(): len() less the keys held in slots.
ZeroContribution == SetLen - OccupiedSlots

\* C3: after any sequence of insert calls the key 0 contributes exactly 1
\* to len() if insert(0) was called at least once, and 0 otherwise.
C3_ZeroCountsOnce ==
    status = "ok" => ZeroContribution = (IF 0 \in called THEN 1 ELSE 0)

\* C4: on a set built by with_capacity(n) without overflow, after every
\* insert call of a sequence of non-zero keys with at most n distinct keys,
\* the call has returned and len() is the number of distinct keys inserted.
C4_LenIsDistinctCount ==
    (/\ status # "unbuilt"
     /\ ~CapacityOverflows(capacity)
     /\ status # "panic_alloc"
     /\ called # {}
     /\ 0 \notin called
     /\ Cardinality(called) <= capacity)
    => (status = "ok" /\ SetLen = Cardinality(called))

\* C5: insert(k) called again immediately after insert(k), for any key k
\* (0 included), returns and leaves len, has_zero and every table slot as
\* they were.
C5_RepeatInsertIsNoOp ==
    [][again' => (/\ status' = "ok"
                  /\ table' = table
                  /\ len' = len
                  /\ has_zero' = has_zero)]_vars

\* A repeated insert of a non-zero key that does not sit in the first slot
\* probed, in a set that also holds 0.
C5_Witness ==
    /\ again
    /\ status = "ok"
    /\ last \in NonZeroKeys
    /\ has_zero
    /\ len >= 3
    /\ \E b \in 1..Len(table) : table[b][BUCKET_SIZE] = last

\* C7: with_capacity(n) fails with an error whenever rounding n up to a
\* power of two and doubling exceeds the machine word; it builds no table.
C7_CapacityOverflowFails ==
    (status # "unbuilt" /\ CapacityOverflows(capacity))
    => status \in {"panic_overflow", "panic_alloc"}

\* The home bucket of key: bucket_i & bucket_mask before any increment.
HomeBucket(key) == BitAnd(hashOf[key], Len(table) - 1)

\* Bucket b (0-based) of tab has a slot that is empty or holds key.
OpenFor(tab, b, key) == \E i \in 1..BUCKET_SIZE : tab[b + 1][i] \in {0, key}

\* The first bucket, going from home to (index + 1) mod bucket count, that
\* has a slot for key; there is one when SomeOpenFor holds.
SomeOpenFor(tab, key) == \E b \in 0..(Len(tab) - 1) : OpenFor(tab, b, key)
FirstOpenBucket(tab, key, home) ==
    LET d == CHOOSE d \in 0..(Len(tab) - 1) :
                 /\ OpenFor(tab, (home + d) % Len(tab), key)
                 /\ \A e \in 0..(d - 1) : ~OpenFor(tab, (home + e) % Len(tab), key)
    IN  (home + d) % Len(tab)

\* A step that is a call insert(key) with a non-zero key on a table that
\* has a slot for it.
InsertOfNonZero ==
    /\ status = "ok"
    /\ last' \in NonZeroKeys
    /\ Len(table) > 0
    /\ SomeOpenFor(table, last')

\* C14: when every slot of the bucket being probed holds another key,
\* insert continues at bucket (index + 1) mod bucket count, wrapping from
\* the last bucket to bucket 0, for every hash value, 2^64 - 1 included:
\* the increment never fails and skips no bucket, so the call returns with
\* the key in the first bucket from its home that had a slot for it.
C14_AdvanceWrapsToNextBucket ==
    [][InsertOfNonZero
       => /\ status' = "ok"
          /\ \E i \in 1..BUCKET_SIZE :
               table'[FirstOpenBucket(table, last', HomeBucket(last')) + 1][i] = last']_vars

\* The slot offset insert reads from the top bits of the hash of key.
TopBitsOffset(key) == Shr(hashOf[key], WORD_BITS - LG_BUCKET_SIZE)

\* The first slot (0-based) of bucket, probing circularly from slot off,
\* that is empty or holds key.
FirstSlotFrom(bucket, key, off) ==
    LET e == CHOOSE e \in 0..(BUCKET_SIZE - 1) :
                 /\ bucket[((e + off) % BUCKET_SIZE) + 1] \in {0, key}
                 /\ \A f \in 0..(e - 1) : bucket[((f + off) % BUCKET_SIZE) + 1] \notin {0, key}
    IN  (e + off) % BUCKET_SIZE

\* A step that is a call insert(key) whose probe advanced to a following
\* bucket and ended there.
InsertAdvanced ==
    /\ InsertOfNonZero
    /\ status' = "ok"
    /\ FirstOpenBucket(table, last', HomeBucket(last')) # HomeBucket(last')

\* The table after key went to bucket b (0-based) probed from slot off.
TableWith(tab, key, b, off) ==
    [tab EXCEPT ![b + 1][FirstSlotFrom(tab[b + 1], key, off) + 1] = key]

\* C15 as stated: the slot offset read from the top bits of the hash is
\* used for the home bucket only; whenever the probe advances to a
\* following bucket, the probe of that bucket starts at slot offset 0.
C15_FollowingBucketStartsAtZero ==
    [][InsertAdvanced
       => table' = TableWith(table, last',
                             FirstOpenBucket(table, last', HomeBucket(last')), 0)]_vars

\* C15 amended: the slot offset read from the top bits of the hash is used
\* for every bucket probed; whenever the probe advances to a following
\* bucket, the probe of that bucket starts at the same slot offset as the
\* probe of the home bucket.
C15_FollowingBucketKeepsOffset ==
    [][InsertAdvanced
       => table' = TableWith(table, last',
                             FirstOpenBucket(table, last', HomeBucket(last')),
                             TopBitsOffset(last'))]_vars

\* A key that went to a bucket after its home bucket, into a slot other
\* than slot 0 while slot 0 of that bucket is empty.
C15_Witness ==
    /\ status = "ok"
    /\ last \in NonZeroKeys
    /\ Len(table) > 1
    /\ TopBitsOffset(last) # 0
    /\ \A i \in 1..BUCKET_SIZE : table[HomeBucket(last) + 1][i] \notin {0, last}
    /\ \E b \in 1..Len(table) :
         /\ table[b][1] = 0
         /\ table[b][TopBitsOffset(last) + 1] = last

\* C16: every call of insert terminates, provided the set was created by
\* with_capacity(n) and the keys inserted so far together with the key
\* being inserted comprise at most n distinct non-zero keys: the probe loop
\* reaches an empty slot or a slot holding the key, and the call returns.
C16_InsertTerminates ==
    (called # {} /\ Cardinality(called \ {0}) <= capacity) => status = "ok"

IsPowerOfTwo(n) == \E k \in 0..WORD_BITS : n = Pow2(k)

\* The table is sized for the capacity with_capacity was called with: a
\* power of two of buckets, at least 1, ceil(2n / BUCKET_SIZE) rounded up
\* to a power of two, hence at least 2n slots, and every hash masked with
\* bucket count - 1 is a bucket index.
SizedForCapacity ==
    /\ IsPowerOfTwo(Len(table))
    /\ Len(table) >= 1
    /\ Len(table) = NextPowerOfTwo(DivCeil(2 * capacity, BUCKET_SIZE))
    /\ Len(table) * BUCKET_SIZE >= 2 * capacity
    /\ \A h \in Words : BitAnd(h, Len(table) - 1) \in 0..(Len(table) - 1)

\* C17 as stated: for every capacity n for which the arithmetic does not
\* overflow (n = 0 included), with_capacity(n) (the state right after the
\* call, before any insert) creates a table whose bucket
\* count is a power of two, at least 1, equal to ceil(2n/8) rounded up to a
\* power of two; the table has at least 2n slots and masking any hash with
\* bucket_count - 1 yields a valid bucket index.
C17_CreatesSizedTable ==
    (status # "unbuilt" /\ called = {} /\ ~CapacityOverflows(capacity))
    => SizedForCapacity

\* C17 amended: the same, for every capacity n for which the arithmetic
\* does not overflow and the allocation of the table does not fail (its
\* size in bytes does not exceed isize::MAX).
C17_CreatesSizedTableIfAllocated ==
    (/\ status \notin {"unbuilt", "panic_alloc"}
     /\ called = {}
     /\ ~CapacityOverflows(capacity))
    => SizedForCapacity

\* A set just created for a capacity that is not a power of two, with more
\* buckets than ceil(2n / BUCKET_SIZE).
C17_Witness ==
    /\ status = "ok"
    /\ called = {}
    /\ capacity > 0
    /\ ~IsPowerOfTwo(capacity)
    /\ ~CapacityOverflows(capacity)
    /\ Len(table) > DivCeil(2 * capacity, BUCKET_SIZE)

\* ------------------------------------------------------------------------
\* Properties of dlsd_sort and dlsd_sort_and_count
\* ------------------------------------------------------------------------
\* The ways a call ends.
DlsdEnded == {"done", "panic_assert", "panic_overflow", "panic_bounds", "ub"}

IsSorted(s) == \A i \in 1..(Len(s) - 1) : s[i] <= s[i + 1]

Occurrences(s, v) == Cardinality({i \in 1..Len(s) : s[i] = v})

SameMultiset(a, b) ==
    /\ Len(a) = Len(b)
    /\ \A i \in 1..Len(a) : Occurrences(a, a[i]) = Occurrences(b, a[i])

\* Every element of the argument, hashed.
AllHashed == [i \in 1..Len(orig_data) |-> Hash(hasher, orig_data[i])]

DistinctValues == {orig_data[i] : i \in 1..Len(orig_data)}

InjectiveHasher ==
    Cardinality({Hash(hasher, x) : x \in Words}) = Cardinality(Words)

PositiveMultipleOf4 == Len(orig_data) > 0 /\ Len(orig_data) % CHUNK_SIZE = 0

\* C1: for an argument whose length is a positive multiple of 4 and any
\* hash policy, dlsd_sort returns the hashed elements in non-decreasing
\* order (a sorted permutation of the hashes), whatever the pass count.
C1_SortReturnsSortedHashes ==
    (fn = "sort" /\ PositiveMultipleOf4 /\ pc \in DlsdEnded)
    => (/\ pc = "done"
        /\ IsSorted(result)
        /\ SameMultiset(result, AllHashed))

\* C2: for an argument whose length is a positive multiple of 4 and an
\* injective hash policy, dlsd_sort_and_count returns the number of distinct
\* values of the argument, with or without duplicates.
C2_CountReturnsDistinctCount ==
    (fn = "count" /\ PositiveMultipleOf4 /\ pc \in DlsdEnded /\ InjectiveHasher)
    => (pc = "done" /\ result = Cardinality(DistinctValues))

\* C8: called with a length that is not a multiple of 4, dlsd_sort and
\* dlsd_sort_and_count end in the assertion failure, with nothing hashed,
\* no histogram and no buffer built, and nothing returned.
C8_NonMultipleOf4Asserts ==
    (pc \notin {"idle", "call"} /\ Len(orig_data) % CHUNK_SIZE # 0)
    => (/\ pc = "panic_assert"
        /\ data = <<>>
        /\ aux = <<>>
        /\ counts = <<>>
        /\ result = <<>>)

\* C9: dlsd_sort and dlsd_sort_and_count complete for arrays of every
\* length (empty, length 1, lengths that are no multiple of 4) and return
\* the sorted hashes, respectively the distinct count.
C9_EveryLengthCompletes ==
    (pc \in DlsdEnded)
    => (/\ pc = "done"
        /\ fn = "sort" => (IsSorted(result) /\ SameMultiset(result, AllHashed))
        /\ fn = "count" => result = Cardinality(DistinctValues))

\* C10: for every pass count, odd or even, the vector dlsd_sort returns is
\* the output of the last (insertion-sorting) pass.
C10_ReturnsLastPassOutput ==
    (fn = "sort" /\ pc = "done") => result = last_out

\* The word the last pass has just dealt, its bucket and its group.
JustPlaced == FromBuf[idx]
JustPlacedBucket == read_last_pass_radix(JustPlaced, last_pass_radix) + 1

\* The words dealt so far in the last pass whose sorted bits (group-mask
\* bits) are those of word, in arrival order.
SeenOfGroup(word) ==
    SelectSeq(SubSeq(FromBuf, 1, idx),
              LAMBDA w : SortedBits(w, passes) = SortedBits(word, passes))

\* The live range [start, pos) of bucket b of the last pass.
LiveRange(b) == SubSeq(ToBuf, heads_start[b] + 1, heads_pos[b])

\* C11: in the last pass of dlsd_sort_and_count, after each element is
\* dealt, the live range [start, pos) of its bucket holds, in sorted order,
\* exactly the elements seen so far that share the just-placed element's
\* group-mask bits; after a cursor reset the just-placed element itself
\* lies inside [start, pos).
C11_LiveRangeHoldsGroup ==
    (fn = "count" /\ pc = "last_loop" /\ idx > 0)
    => LiveRange(JustPlacedBucket) = sort_unstable(SeenOfGroup(JustPlaced))

\* The digit the current non-last pass reads from word.
PassDigit(word) == read_radix(word, pass, passes)

\* The digits of the words of buf, in order.
DigitsOf(buf) == [i \in 1..Len(buf) |-> PassDigit(buf[i])]

\* Given the digits dig of `from`: where the range of digit r begins in
\* `to`, which is the number of words with a smaller digit (the whole
\* length for r = RADIX).
DigitStart(dig, r) == Cardinality({i \in 1..Len(dig) : dig[i] < r})

\* The number of words of digit r among the first n.
DealtOfDigit(dig, r, n) == Cardinality({i \in 1..n : dig[i] = r})

\* The place in `to` (0-based) of the i-th word of `from` under a stable
\* grouping by digit: after every word of a smaller digit and every earlier
\* word of its own digit.
StablePlace(dig, i) == DigitStart(dig, dig[i]) + DealtOfDigit(dig, dig[i], i - 1)

\* C12: in every non-last pass of dlsd_sort and dlsd_sort_and_count each
\* digit's write cursor starts at the prefix sum of the pass's histogram
\* and only advances (it stands at its start plus the number of words of
\* that digit dealt so far), never beyond the start of the next digit's
\* range, so every write index is < n; every word dealt lies at its place
\* under a stable grouping by digit, so when the pass ends `to` is a
\* permutation of `from` grouped by digit in increasing digit order, equal
\* digits in their original relative order.
C12_PassDealsStably ==
    pc = "pass_loop"
    => LET dig == DigitsOf(FromBuf)
           n == Len(FromBuf)
       IN  /\ \A r \in 0..(RADIX - 1) :
                /\ heads_pos[r + 1] = DigitStart(dig, r) + DealtOfDigit(dig, r, idx)
                /\ heads_pos[r + 1] <= DigitStart(dig, r + 1)
           /\ idx < n => heads_pos[dig[idx + 1] + 1] < Len(ToBuf)
           /\ \A i \in 1..idx : ToBuf[StablePlace(dig, i) + 1] = FromBuf[i]
           /\ idx = n =>
                /\ SameMultiset(ToBuf, FromBuf)
                /\ \A i \in 1..(n - 1) : PassDigit(ToBuf[i]) <= PassDigit(ToBuf[i + 1])

\* The end of a non-last pass of dlsd_sort_and_count that moved words: two
\* digits occur, and two different words share a digit.
C12_Witness ==
    /\ pc = "pass_loop"
    /\ fn = "count"
    /\ idx = Len(FromBuf)
    /\ ToBuf # FromBuf
    /\ \E i, j \in 1..Len(FromBuf) :
         /\ i < j
         /\ FromBuf[i] # FromBuf[j]
         /\ PassDigit(FromBuf[i]) = PassDigit(FromBuf[j])
    /\ \E i, j \in 1..Len(FromBuf) : PassDigit(FromBuf[i]) < PassDigit(FromBuf[j])

\* The bucket of the last pass of dlsd_sort_and_count that word goes to.
LastPassBucket(word) == read_last_pass_radix(word, last_pass_radix)

\* C19: in dlsd_sort_and_count, within each bucket of the last pass the
\* elements arrive in non-decreasing order of their group-mask bits (the
\* top LG_RADIX * passes bits), for every length that is a positive
\* multiple of 4, the lengths with last_pass_radix < LG_RADIX included.
C19_GroupsArriveInOrder ==
    (fn = "count" /\ pc = "last_loop" /\ PositiveMultipleOf4)
    => \A i, j \in 1..Len(FromBuf) :
         (i < j /\ LastPassBucket(FromBuf[i]) = LastPassBucket(FromBuf[j]))
         => SortedBits(FromBuf[i], passes) <= SortedBits(FromBuf[j], passes)

\* ------------------------------------------------------------------------
\* Properties of wide_merge_sort
\* ------------------------------------------------------------------------
NoMaxIn(s) == \A i \in 1..Len(s) : s[i] # WordMax

\* C6: for an input of any length (delegated to sort_unstable, or merged
\* 256-way, recursively) that does not contain u64::MAX, wide_merge_sort
\* leaves data with the same length, in non-decreasing order, holding the
\* same multiset of values as the input.
C6_MergeSortSortsInput ==
    (m_pc = "done" /\ NoMaxIn(m_input))
    => (/\ Len(m_data) = Len(m_input)
        /\ IsSorted(m_data)
        /\ SameMultiset(m_data, m_input))

\* A finished sort of an unsorted array with repeated values, long enough
\* for two levels of merging.
C6_Witness ==
    /\ m_pc = "done"
    /\ Len(m_input) = DeepLen
    /\ NoMaxIn(m_input)
    /\ ~IsSorted(m_input)
    /\ \E i \in 1..Len(m_input) : Occurrences(m_input, m_input[i]) > 1

\* The head of run i in the top-level merge: its next element, u64::MAX
\* when the run is exhausted.  keys[i] is the element the iterator yielded
\* last, so the run's elements from there on are those not yet written.
RunLen(i) == ChunkEnd(Len(m_aux), i) - ChunkStart(Len(m_aux), i)
RunExhausted(i) == srcs[i] = RunLen(i) /\ keys[i] = WordMax

\* C13: in merge256, after the tournament tree is initialised and after
\* every replay (at the start of every iteration of the output loop),
\* loser_table[0] names a run whose head key is less than or equal to the
\* head key of every other run, the head of an exhausted run being
\* u64::MAX.
C13_RootNamesSmallestHead ==
    m_pc = "merge"
    => /\ loser_table[0] \in 0..(N - 1)
       /\ \A i \in 0..(N - 1) : keys[loser_table[0]] <= keys[i]

\* The output loop under way with an exhausted run, a run that is not
\* exhausted, and heads that differ; the winner is not run 0.
C13_Witness ==
    /\ m_pc = "merge"
    /\ m_out > 1
    /\ m_out < Len(m_data)
    /\ loser_table[0] # 0
    /\ \E i \in 0..(N - 1) : RunExhausted(i)
    /\ \E i, j \in 0..(N - 1) : keys[i] < keys[j] /\ keys[j] < WordMax

\* C18: wide_merge_sort leaves a non-decreasing permutation of its input
\* also when the input, long enough for the tournament merge to run,
\* contains elements equal to u64::MAX, the sentinel of an exhausted run:
\* every smaller element comes before any u64::MAX and as many u64::MAX
\* are written as the input holds.
C18_SortsInputHoldingMax ==
    (m_pc = "done" /\ Len(m_input) > BASE_LEN /\ ~NoMaxIn(m_input))
    => (/\ Len(m_data) = Len(m_input)
        /\ IsSorted(m_data)
        /\ Occurrences(m_data, WordMax) = Occurrences(m_input, WordMax)
        /\ SameMultiset(m_data, m_input))

\* A finished two-level merge sort of an input that holds u64::MAX several
\* times, among them before smaller elements.
C18_Witness ==
    /\ m_pc = "done"
    /\ Len(m_input) = DeepLen
    /\ Occurrences(m_input, WordMax) > 1
    /\ \E i, j \in 1..Len(m_input) :
         i < j /\ m_input[i] = WordMax /\ m_input[j] < WordMax

====
